---------------------------- MODULE Spec2Model ----------------------------
(***************************************************************************)
(* A model of waveflow_studio_sdk/client.py: the WaveFlowStudio client.    *)
(*                                                                         *)
(* Encoding of Python / JSON values                                        *)
(*   - api_key and base_url are sequences of one-character strings, so     *)
(*     that str.startswith and str.rstrip are computed, not assumed.       *)
(*   - every other scalar is a string token: None (Python None and JSON    *)
(*     null), "true", "false", "200", "s1", ...                            *)
(*   - a response body is a record: form says whether the text is not      *)
(*     JSON ("text"), JSON but not an object ("array"), or a JSON object   *)
(*     ("object"); for an object each key holds its value, or ABSENT when  *)
(*     the key is missing.  content is None, a string, or "obj" (a nested  *)
(*     object whose only modelled key is valid).                           *)
(*   - the outcome of a call is a record: kind "return" or "raise", the    *)
(*     exception class, the shape of a returned mapping, the parts of the  *)
(*     message, and the returned body.                                     *)
(***************************************************************************)
EXTENDS Integers, Sequences, FiniteSets, TLC

VARIABLES phase,        \* "new" before __init__, "ready" after it, "failed" if it raised
          api_key,      \* self.api_key
          base_url,     \* self.base_url
          workflow_id,  \* self.workflow_id
          op,           \* the operation invoked last
          arg,          \* the session_id or checked argument of that invocation
          sent,         \* the HTTP requests that invocation issued, in order
          resp,         \* the transport's answer to the last of them
          result,       \* how that invocation ended
          before,       \* history: self.workflow_id when that invocation began
          adopted,      \* history: the identifier of the most recent adopting response
          given_url,    \* history: the base_url argument of __init__
          token,        \* the token argument of that invocation (add_tool), <<>> if none
          handles,      \* the file handles that invocation opened and has not closed
          threads,      \* the save_workflow/run_workflow calls in progress on two threads
          fetched,      \* the models list that invocation got from get_models, ABSENT if none
          validations   \* history: the GET /user requests the constructor has issued

vars == <<phase, api_key, base_url, workflow_id, op, arg, sent, resp, result, before, adopted,
          given_url, token, handles, threads, fetched, validations>>

None == "None"
ABSENT == "<absent>"

----------------------------------------------------------------------------
(* Response bodies *)

BodyKeys == {"detail", "error", "message", "status_code", "content", "valid",
             "session_id", "workflow_id", "models", "success"}

NoFields == [k \in BodyKeys |-> ABSENT]

TextBody == [form |-> "text", f |-> NoFields]
ArrayBody == [form |-> "array", f |-> NoFields]
NoBody == [form |-> "none", f |-> NoFields]

\* how many distinct session identifiers the server hands out
MaxSessions == 2

SessionIds == { "s" \o ToString(i) : i \in 1..MaxSessions }

\* the values a server may put under each key
ValuesOf(k) ==
    CASE k = "detail" -> {"X", None}
      [] k = "error" -> {"Y"}
      [] k = "message" -> {"Z"}
      [] k = "status_code" -> {"200", "500"}
      [] k = "content" -> {None, "str", "obj"}
      [] k = "valid" -> {"true", "false"}
      [] k = "session_id" -> {None} \cup SessionIds
      [] k = "workflow_id" -> {""} \cup SessionIds
      [] k = "models" -> {"[]", "[m]"}
      [] k = "success" -> {"true", "false"}

\* the values key k may take in a body whose keys are among keys
Dom(k, keys) == IF k \in keys THEN ValuesOf(k) \cup {ABSENT} ELSE {ABSENT}

\* JSON objects whose keys are among keys; valid lives inside a content object
ObjectsWith(keys) ==
    { [form |-> "object", f |-> g] :
        g \in { h \in [detail : Dom("detail", keys), error : Dom("error", keys),
                        message : Dom("message", keys),
                        status_code : Dom("status_code", keys),
                        content : Dom("content", keys), valid : Dom("valid", keys),
                        session_id : Dom("session_id", keys),
                        workflow_id : Dom("workflow_id", keys),
                        models : Dom("models", keys),
                        success : Dom("success", keys)] :
                  h.valid # ABSENT => h.content = "obj" } }

BodiesWith(keys) == {TextBody, ArrayBody} \cup ObjectsWith(keys)

Has(body, k) == body.form = "object" /\ body.f[k] # ABSENT

\* Python truthiness of a token
Truthy(v) == v \notin {ABSENT, None, "false", "", "0", "[]", "{}"}

----------------------------------------------------------------------------
(* Transport *)

Statuses == {200, 201, 302, 401, 500}

TransportErrors == {"ConnectionError", "Timeout"}

\* requests.exceptions.RequestException and its subclasses
RequestExceptions == TransportErrors \cup {"HTTPError", "JSONDecodeError"}

NoAnswer == [err |-> "", status |-> 0, body |-> NoBody]

\* what requests.get/post/delete can do: raise, or return a response
AnswersWith(keys) ==
    { [err |-> e, status |-> 0, body |-> NoBody] : e \in TransportErrors }
    \cup { [err |-> "", status |-> s, body |-> b] : s \in Statuses, b \in BodiesWith(keys) }

\* requests.Response.ok: raise_for_status does not raise, i.e. status < 400
Ok(r) == r.status < 400

NoAuth == [bearer |-> FALSE, token |-> <<>>]
Bearer(credential) == [bearer |-> TRUE, token |-> credential]

Request(method, base, path, auth, sessionid) ==
    [method |-> method, base |-> base, path |-> path, auth |-> auth, sessionid |-> sessionid]

----------------------------------------------------------------------------
(* Outcomes *)

NoResult == [kind |-> "none", exc |-> "", shape |-> "", label |-> "", msg |-> "",
             code |-> 0, body |-> NoBody]

\* return <decoded body>
ReturnBody(b) == [NoResult EXCEPT !.kind = "return", !.shape = "payload", !.body = b]

\* return {"status": "error", "message": msg}
ReturnStatusError(msg) ==
    [NoResult EXCEPT !.kind = "return", !.shape = "status_error", !.msg = msg]

\* return {"error": label ...: msg}
ReturnError(label, msg) ==
    [NoResult EXCEPT !.kind = "return", !.shape = "error_map", !.label = label, !.msg = msg]

\* raise exc(label: msg), code being the status the message quotes
Raise(exc, label, msg, code) ==
    [NoResult EXCEPT !.kind = "raise", !.exc = exc, !.label = label, !.msg = msg, !.code = code]

----------------------------------------------------------------------------
(* Construction *)

AAAI == <<"A", "A", "A", "I">>

\* str.startswith
StartsWith(s, prefix) ==
    /\ Len(s) >= Len(prefix)
    /\ SubSeq(s, 1, Len(prefix)) = prefix

\* a trim that drops one trailing "/" only
RStrip_one(s) ==
    IF s = <<>> \/ s[Len(s)] # "/" THEN s ELSE SubSeq(s, 1, Len(s) - 1)

\* str.rstrip("/"): drops every trailing "/"
RECURSIVE RStrip(_)
RStrip(s) ==
    IF s = <<>> \/ s[Len(s)] # "/" THEN s ELSE RStrip(SubSeq(s, 1, Len(s) - 1))

\* the credentials and base addresses a caller may pass
ApiKeys == { AAAI,
             <<"A", "A", "A", "I", "-", "k">>,
             <<"A", "A", "A">>,
             <<"a", "a", "a", "i", "-", "k">>,
             <<"x", "A", "A", "A", "I">>,
             <<"e", "y", "J">> }

BaseUrls == { <<"h">>, <<"h", "/">>, <<"h", "/", "/">> }

UserKeys == {"status_code", "content", "valid"}

\* res.get("status_code") == 200 and res.get("content", {}).get("valid"), where
\* .get on a value that is no dict raises AttributeError
ValidateBody(b) ==
    IF b.form = "text" THEN Raise("JSONDecodeError", "", "Expecting value", 0)
    ELSE IF b.form # "object" THEN Raise("AttributeError", "", "get", 0)
    ELSE IF b.f["status_code"] # "200" THEN Raise("InvalidAPIKeyError", "", "Invalid API key provided.", 0)
    ELSE IF b.f["content"] \notin {ABSENT, "obj"} THEN Raise("AttributeError", "", "get", 0)
    ELSE IF Truthy(b.f["valid"]) THEN ReturnBody(NoBody)
    ELSE Raise("InvalidAPIKeyError", "", "Invalid API key provided.", 0)

\* _validate_api_key once the key is known not to be trusted: the except clause
ValidateAnswer(r) ==
    LET o == IF r.err # "" THEN Raise(r.err, "", r.err, 0) ELSE ValidateBody(r.body)
    IN  IF o.kind = "raise" /\ o.exc \in RequestExceptions
        THEN Raise("InvalidAPIKeyError", "", "Invalid API key provided.", 0)
        ELSE o

\* _validate_api_key's gate: self.api_key.startswith("AAAI")
SkipsValidation_exact(key) == key = AAAI

SkipsValidation(key) == StartsWith(key, AAAI)

\* a thread that is in no call
Idle == [pc |-> "idle", name |-> "", a |-> None, sid |-> None, got |-> ABSENT]

Threads == {1, 2}

NoThreads == [t \in Threads |-> Idle]

InitNew ==
    /\ phase = "new"
    /\ api_key = <<>>
    /\ base_url = <<>>
    /\ workflow_id = None
    /\ op = "none"
    /\ arg = None
    /\ sent = <<>>
    /\ resp = NoAnswer
    /\ result = NoResult
    /\ before = None
    /\ adopted = None
    /\ given_url = <<>>
    /\ token = <<>>
    /\ handles = 0
    /\ threads = NoThreads
    /\ fetched = ABSENT
    /\ validations = 0

\* WaveFlowStudio.__init__
Construct(key, url, r) ==
    /\ phase = "new"
    /\ api_key' = key
    /\ base_url' = RStrip(url)
    /\ op' = "__init__"
    /\ arg' = None
    /\ IF SkipsValidation(key)
       THEN /\ sent' = <<>>
            /\ resp' = NoAnswer
            /\ result' = ReturnBody(NoBody)
       ELSE /\ sent' = <<Request("GET", RStrip(url), "/user", Bearer(key), None)>>
            /\ resp' = r
            /\ result' = ValidateAnswer(r)
    /\ phase' = IF result'.kind = "return" THEN "ready" ELSE "failed"
    /\ workflow_id' = None
    /\ given_url' = url
    /\ validations' = validations + Len(sent')
    /\ UNCHANGED <<before, adopted, token, handles, threads, fetched>>

NextNew == \E key \in ApiKeys, url \in BaseUrls, r \in AnswersWith(UserKeys) : Construct(key, url, r)

SpecNew == InitNew /\ [][NextNew]_vars

\* C1: a credential that starts with AAAI is accepted by the constructor
\* without any HTTP request.
C1_TrustedKeyNoRequest ==
    (op = "__init__" /\ Len(api_key) >= 4 /\ api_key[1] = "A" /\ api_key[2] = "A"
       /\ api_key[3] = "A" /\ api_key[4] = "I")
    => (phase = "ready" /\ result.kind = "return" /\ sent = <<>> /\ resp = NoAnswer)

C1_Witness ==
    /\ op = "__init__"
    /\ api_key = <<"A", "A", "A", "I", "-", "k">>
    /\ phase = "ready"
    /\ sent = <<>>

IsTrusted(key) ==
    Len(key) >= 4 /\ key[1] = "A" /\ key[2] = "A" /\ key[3] = "A" /\ key[4] = "I"

\* C2: any other credential makes the constructor issue exactly one GET /user
\* with the credential as bearer token; it succeeds exactly when the body has
\* status_code 200 and content.valid true, and every other outcome raises
\* InvalidAPIKeyError and nothing else.
C2_OneValidationUniformFailure ==
    (op = "__init__" /\ ~IsTrusted(api_key))
    => /\ sent = <<Request("GET", base_url, "/user", Bearer(api_key), None)>>
       /\ (phase = "ready") <=> (/\ resp.err = ""
                                 /\ resp.body.form = "object"
                                 /\ resp.body.f["status_code"] = "200"
                                 /\ resp.body.f["content"] = "obj"
                                 /\ resp.body.f["valid"] = "true")
       /\ phase # "ready" => (/\ phase = "failed"
                              /\ result.kind = "raise"
                              /\ result.exc = "InvalidAPIKeyError")

----------------------------------------------------------------------------
(* _handle_response *)

\* data.get("detail", data.get("error", data.get("message", "Unknown API error")))
ErrorMessage_truthy(b) ==
    IF Truthy(b.f["detail"]) THEN b.f["detail"]
    ELSE IF Truthy(b.f["error"]) THEN b.f["error"]
    ELSE IF Truthy(b.f["message"]) THEN b.f["message"]
    ELSE "Unknown API error"

ErrorMessage(b) ==
    IF b.f["detail"] # ABSENT THEN b.f["detail"]
    ELSE IF b.f["error"] # ABSENT THEN b.f["error"]
    ELSE IF b.f["message"] # ABSENT THEN b.f["message"]
    ELSE "Unknown API error"

\* Response.raise_for_status raises HTTPError for 4xx and 5xx
RaisesForStatus(r) == r.status >= 400 /\ r.status < 600

\* return data
Decoded_checked(r) ==
    IF Has(r.body, "status_code") /\ r.body.f["status_code"] # "200"
    THEN Raise("Exception", "API Error (HTTP)", ErrorMessage(r.body), r.status)
    ELSE ReturnBody(r.body)

Decoded(r) == ReturnBody(r.body)

\* WaveFlowStudio._handle_response
HandleResponse(r) ==
    IF r.body.form = "text"
    THEN IF RaisesForStatus(r)
         THEN Raise("HTTPError", "", "status", r.status)
         ELSE ReturnStatusError("Unknown server error")
    ELSE IF ~Ok(r)
         THEN IF r.body.form # "object"
              THEN Raise("AttributeError", "", "get", 0)
              ELSE Raise("Exception", "API Error (HTTP)", ErrorMessage(r.body), r.status)
         ELSE Decoded(r)

HandleKeys == {"detail", "error", "message", "status_code", "session_id"}

\* a client as __init__ leaves it
Ready(key) ==
    /\ phase = "ready"
    /\ api_key = key
    /\ base_url = <<"h">>
    /\ workflow_id = None
    /\ op = "none"
    /\ arg = None
    /\ sent = <<>>
    /\ result = NoResult
    /\ before = None
    /\ adopted = None
    /\ given_url = <<"h">>
    /\ token = <<>>
    /\ handles = 0
    /\ threads = NoThreads
    /\ fetched = ABSENT
    /\ validations = IF SkipsValidation(key) THEN 0 ELSE 1

InitHandle ==
    /\ Ready(<<"A", "A", "A", "I", "-", "k">>)
    /\ resp \in {r \in AnswersWith(HandleKeys) : r.err = ""}

ApplyHandle ==
    /\ op = "none"
    /\ op' = "_handle_response"
    /\ result' = HandleResponse(resp)
    /\ UNCHANGED <<phase, api_key, base_url, workflow_id, arg, sent, resp, before, adopted,
                   given_url, token, handles, threads, fetched, validations>>

SpecHandle == InitHandle /\ [][ApplyHandle]_vars

IsJson(b) == b.form \in {"object", "array"}

Is2xx(r) == r.status >= 200 /\ r.status < 300

IsApiError(o) == o.kind = "raise" /\ o.exc = "Exception" /\ o.label = "API Error (HTTP)"

\* the message the precedence detail, error, message, fallback selects
Precedence(b) ==
    CASE b.f["detail"] # ABSENT -> b.f["detail"]
      [] b.f["detail"] = ABSENT /\ b.f["error"] # ABSENT -> b.f["error"]
      [] b.f["detail"] = ABSENT /\ b.f["error"] = ABSENT /\ b.f["message"] # ABSENT
           -> b.f["message"]
      [] OTHER -> "Unknown API error"

C5_NonSuccessIsApiError ==
    (op = "_handle_response" /\ IsJson(resp.body) /\ ~Is2xx(resp))
    => (/\ IsApiError(result)
        /\ result.code = resp.status
        /\ result.msg = Precedence(resp.body))

----------------------------------------------------------------------------
(* The public operations of a constructed client *)

\* the session_id arguments a caller may pass
SessionArgs == {None, ""} \cup SessionIds

\* the statuses the endpoints of the operations answer with
OpStatuses == {200, 302, 500}

OpAnswers(keys) ==
    { r \in AnswersWith(keys) : r.err # "" \/ r.status \in OpStatuses }

\* a request with the client's own credential
\* a request sent without the headers argument
Authed_anonymous(method, path, sessionid) ==
    Request(method, base_url, path, NoAuth, sessionid)

Authed(method, path, sessionid) ==
    Request(method, base_url, path, Bearer(api_key), sessionid)

\* self.api_key after an invocation that was handed the token tok (<<>> if none):
\* no method assigns self.api_key, and add_tool uses its token for the header only
StoredKey_token(tok) == IF tok # <<>> THEN tok ELSE api_key

StoredKey(tok) == api_key

\* an invocation that issues its request again when the transport raised
Call_resend(name, a, requests, r, outcome, wf, tok, open, got) ==
    /\ phase = "ready"
    /\ op' = name
    /\ arg' = a
    /\ sent' = IF r.err # "" THEN requests \o requests ELSE requests
    /\ resp' = IF requests = <<>> THEN NoAnswer ELSE r
    /\ result' = outcome
    /\ before' = workflow_id
    /\ workflow_id' = wf
    /\ api_key' = StoredKey(tok)
    /\ token' = tok
    /\ handles' = open
    /\ fetched' = got
    /\ UNCHANGED <<phase, base_url, given_url, threads, validations>>

\* an invocation that validates the credential again before its own request
Call_revalidating(name, a, requests, r, outcome, wf, tok, open, got) ==
    /\ phase = "ready"
    /\ op' = name
    /\ arg' = a
    /\ sent' = IF requests = <<>> THEN requests
               ELSE <<Request("GET", base_url, "/user", Bearer(api_key), None)>> \o requests
    /\ resp' = IF requests = <<>> THEN NoAnswer ELSE r
    /\ result' = outcome
    /\ before' = workflow_id
    /\ workflow_id' = wf
    /\ api_key' = StoredKey(tok)
    /\ token' = tok
    /\ handles' = open
    /\ fetched' = got
    /\ validations' = validations + (IF requests = <<>> THEN 0 ELSE 1)
    /\ UNCHANGED <<phase, base_url, given_url, threads>>

\* the state an invocation leaves: what it sent, what came back, how it ended,
\* the token it was handed, the file handles it left open and the models list
\* it got from get_models on the way
Call(name, a, requests, r, outcome, wf, tok, open, got) ==
    /\ phase = "ready"
    /\ op' = name
    /\ arg' = a
    /\ sent' = requests
    /\ resp' = IF requests = <<>> THEN NoAnswer ELSE r
    /\ result' = outcome
    /\ before' = workflow_id
    /\ workflow_id' = wf
    /\ api_key' = StoredKey(tok)
    /\ token' = tok
    /\ handles' = open
    /\ fetched' = got
    /\ UNCHANGED <<phase, base_url, given_url, threads, validations>>

\* an invocation of a method that does not call get_models
Invoke(name, a, requests, r, outcome, wf, tok, open) ==
    Call(name, a, requests, r, outcome, wf, tok, open, ABSENT)

\* an invocation of a method that takes no token and opens no file
Finish(name, a, requests, r, outcome, wf) ==
    Invoke(name, a, requests, r, outcome, wf, <<>>, 0)

\* except requests.exceptions.RequestException as e: raise Exception(f"Connection error: {e}")
ConnectionErrorWrap(o) ==
    IF o.kind = "raise" /\ o.exc \in RequestExceptions
    THEN Raise("Exception", "Connection error", o.exc, o.code)
    ELSE o

\* except Exception as e: return {"error": str(e)}
ErrorMapWrap(label, o) ==
    IF o.kind = "raise" THEN ReturnError(label, o.exc) ELSE o

\* except requests.RequestException: {"error": f"Request failed: ..."}; except Exception: {"error": str(e)}
RequestFailedWrap(o) ==
    IF o.kind = "raise" /\ o.exc \in RequestExceptions THEN ReturnError("Request failed", o.exc)
    ELSE IF o.kind = "raise" THEN ReturnError("", o.exc)
    ELSE o

\* response = requests.<method>(...); data = response.json()
DecodeAnswer(r) ==
    IF r.err # "" THEN Raise(r.err, "", r.err, 0)
    ELSE IF r.body.form = "text" THEN Raise("JSONDecodeError", "", "Expecting value", r.status)
    ELSE ReturnBody(r.body)

\* response = requests.<method>(...); response.raise_for_status(); return response.json()
CheckedAnswer(r) ==
    IF r.err # "" THEN Raise(r.err, "", r.err, 0)
    ELSE IF RaisesForStatus(r) THEN Raise("HTTPError", "", "status", r.status)
    ELSE IF r.body.form = "text" THEN Raise("JSONDecodeError", "", "Expecting value", r.status)
    ELSE ReturnBody(r.body)

\* response = requests.<method>(...); return self._handle_response(response)
HandledAnswer(r) ==
    IF r.err # "" THEN Raise(r.err, "", r.err, 0) ELSE HandleResponse(r)

\* if "session_id" in data: self.workflow_id = data["session_id"]
AdoptSession_whenUnset(wf, b) ==
    IF Has(b, "session_id") /\ wf = None THEN b.f["session_id"] ELSE wf

\* adoption that keeps the stored identifier when the body's session_id is null
AdoptSession_nonNull(wf, b) ==
    IF Has(b, "session_id") /\ b.f["session_id"] # None THEN b.f["session_id"] ELSE wf

AdoptSession(wf, b) ==
    IF Has(b, "session_id") THEN b.f["session_id"] ELSE wf

\* if resp_json.get("workflow_id"): self.workflow_id = resp_json["workflow_id"]
AdoptWorkflow_whenUnset(wf, b) ==
    IF Has(b, "workflow_id") /\ Truthy(b.f["workflow_id"]) /\ wf = None
    THEN b.f["workflow_id"] ELSE wf

\* if "workflow_id" in resp_json: adoption of an empty identifier too
AdoptWorkflow_anyValue(wf, b) ==
    IF Has(b, "workflow_id") THEN b.f["workflow_id"] ELSE wf

AdoptWorkflow(wf, b) ==
    IF Has(b, "workflow_id") /\ Truthy(b.f["workflow_id"]) THEN b.f["workflow_id"] ELSE wf

\* WaveFlowStudio.create_workflow
create_workflow(file_ok, r) ==
    LET d == DecodeAnswer(r)
        o == IF d.kind = "return" /\ d.body.form # "object"
             THEN Raise("AttributeError", "", "get", 0)
             ELSE d
    IN  IF ~file_ok
        THEN /\ Finish("create_workflow", None, <<>>, r, ReturnError("", "OSError"), workflow_id)
             /\ UNCHANGED adopted
        ELSE /\ Finish("create_workflow", None, <<Authed("POST", "/workflow-config", None)>>, r,
                       ErrorMapWrap("", o),
                       IF o.kind = "return" THEN AdoptWorkflow(workflow_id, o.body)
                       ELSE workflow_id)
             /\ adopted' = IF r.err = "" /\ Has(r.body, "workflow_id")
                              /\ r.body.f["workflow_id"] # ""
                           THEN r.body.f["workflow_id"] ELSE adopted

\* WaveFlowStudio.create_agent
create_agent(a, r) ==
    /\ Finish("create_agent", a, <<Authed("POST", "/create_agent", None)>>, r,
              ErrorMapWrap("", DecodeAnswer(r)), workflow_id)
    /\ UNCHANGED adopted

\* session_id or self.workflow_id
\* sid = self.workflow_id or session_id: the stored identifier preferred
SessionFor_storedFirst(a, wf) == IF Truthy(wf) THEN wf ELSE a

SessionFor(a, wf) == IF Truthy(a) THEN a ELSE wf

\* the body of save_workflow and run_workflow after the session check
SessionCall(name, path, a, r) ==
    LET sid == SessionFor(a, workflow_id)
        d == DecodeAnswer(r)
    IN  IF ~Truthy(sid)
        THEN /\ Finish(name, a, <<>>, r, ReturnError("No session_id found", ""), workflow_id)
             /\ UNCHANGED adopted
        ELSE /\ Finish(name, a, <<Authed("POST", path, sid)>>, r, RequestFailedWrap(d),
                       IF d.kind = "return" THEN AdoptSession(workflow_id, d.body)
                       ELSE workflow_id)
             /\ adopted' = IF r.err = "" /\ Has(r.body, "session_id")
                           THEN r.body.f["session_id"] ELSE adopted

\* WaveFlowStudio.save_workflow
save_workflow(a, r) == SessionCall("save_workflow", "/save", a, r)

\* WaveFlowStudio.run_workflow
run_workflow(a, r) == SessionCall("run_workflow", "/run", a, r)

\* return {"message": data.get("message", "Workflow deleted successfully")}
ReturnMessage(b) ==
    [NoResult EXCEPT !.kind = "return", !.shape = "message",
                     !.msg = IF b.f["message"] # ABSENT THEN b.f["message"]
                             ELSE "Workflow deleted successfully"]

\* delete_workflow clearing the session whichever workflow was deleted
delete_workflow_anySession(a, r) ==
    LET d == DecodeAnswer(r)
        o == IF d.kind = "raise" THEN d
             ELSE IF d.body.form # "object" THEN Raise("AttributeError", "", "get", 0)
             ELSE IF r.status = 200 THEN ReturnMessage(d.body)
             ELSE ReturnError("", IF d.body.f["error"] # ABSENT THEN d.body.f["error"]
                                  ELSE "Unknown error occurred")
    IN  /\ IF ~Truthy(a)
           THEN Finish("delete_workflow", a, <<>>, r,
                       ReturnError("Session ID is required to delete a workflow.", ""),
                       workflow_id)
           ELSE Finish("delete_workflow", a, <<Authed("DELETE", "/delete-workflow/", None)>>, r,
                       RequestFailedWrap(o),
                       IF d.kind = "return" /\ r.status = 200
                       THEN None ELSE workflow_id)
        /\ UNCHANGED adopted

\* WaveFlowStudio.delete_workflow
delete_workflow(a, r) ==
    LET d == DecodeAnswer(r)
        o == IF d.kind = "raise" THEN d
             ELSE IF d.body.form # "object" THEN Raise("AttributeError", "", "get", 0)
             ELSE IF r.status = 200 THEN ReturnMessage(d.body)
             ELSE ReturnError("", IF d.body.f["error"] # ABSENT THEN d.body.f["error"]
                                  ELSE "Unknown error occurred")
    IN  /\ IF ~Truthy(a)
           THEN Finish("delete_workflow", a, <<>>, r,
                       ReturnError("Session ID is required to delete a workflow.", ""),
                       workflow_id)
           ELSE Finish("delete_workflow", a, <<Authed("DELETE", "/delete-workflow/", None)>>, r,
                       RequestFailedWrap(o),
                       IF d.kind = "return" /\ r.status = 200 /\ workflow_id = a
                       THEN None ELSE workflow_id)
        /\ UNCHANGED adopted

\* return {"answer": ..., "conversation": ..., "citation": ...}
ReturnAnswer == [NoResult EXCEPT !.kind = "return", !.shape = "answer"]

\* chat without the test of self.workflow_id
chat_unguarded(r) ==
    LET d == DecodeAnswer(r)
        o == IF d.kind = "raise" THEN d
             ELSE IF d.body.form # "object" THEN Raise("AttributeError", "", "get", 0)
             ELSE ReturnAnswer
    IN  /\ Finish("chat", None, <<Authed("POST", "/workflow-run-chat-pdf-sdk", None)>>, r,
                  ErrorMapWrap("", o), workflow_id)
        /\ UNCHANGED adopted

\* WaveFlowStudio.chat
chat(r) ==
    LET d == DecodeAnswer(r)
        o == IF d.kind = "raise" THEN d
             ELSE IF d.body.form # "object" THEN Raise("AttributeError", "", "get", 0)
             ELSE ReturnAnswer
    IN  /\ IF ~Truthy(workflow_id)
           THEN Finish("chat", None, <<>>, r,
                       ReturnError("Workflow not created. Call create_workflow first.", ""),
                       workflow_id)
           ELSE Finish("chat", None, <<Authed("POST", "/workflow-run-chat-pdf-sdk", None)>>, r,
                       ErrorMapWrap("", o), workflow_id)
        /\ UNCHANGED adopted

\* WaveFlowStudio.deploy_workflow
deploy_workflow(a, r) ==
    /\ IF ~Truthy(a)
       THEN Finish("deploy_workflow", a, <<>>, r,
                   Raise("ValueError", "", "is required.", 0), workflow_id)
       ELSE Finish("deploy_workflow", a, <<Authed("POST", "/deploy", None)>>, r,
                   ConnectionErrorWrap(HandledAnswer(r)), workflow_id)
    /\ UNCHANGED adopted

\* int(token) of an embedded status_code, 0 standing for None
Num(v) == CASE v = "200" -> 200 [] v = "500" -> 500 [] OTHER -> 0

\* if json_response.get("status_code") != 200: raise Exception(f"API Error (...): ...")
EmbeddedStatusCheck(o) ==
    IF o.kind # "return" THEN o
    ELSE IF o.shape = "status_error"
         THEN Raise("Exception", "API Error", o.msg, 0)
    ELSE IF o.body.form # "object" THEN Raise("AttributeError", "", "get", 0)
    ELSE IF o.body.f["status_code"] # "200"
         THEN Raise("Exception", "API Error",
                    IF o.body.f["message"] # ABSENT THEN o.body.f["message"] ELSE "Unknown error",
                    Num(o.body.f["status_code"]))
    ELSE o

\* WaveFlowStudio.create_workflow_config
create_workflow_config(a, r) ==
    /\ IF ~Truthy(a)
       THEN Finish("create_workflow_config", a, <<>>, r,
                   Raise("ValueError", "", "agents_data is required.", 0), workflow_id)
       ELSE Finish("create_workflow_config", a, <<Authed("POST", "/workflow-config", None)>>, r,
                   ConnectionErrorWrap(EmbeddedStatusCheck(HandledAnswer(r))), workflow_id)
    /\ UNCHANGED adopted

\* the value get_models returns
ModelsResult(r) ==
    LET o == CheckedAnswer(r)
    IN  IF o.kind = "raise" /\ o.exc \in RequestExceptions
        THEN ReturnError("Failed to fetch models", o.exc)
        ELSE o

\* WaveFlowStudio.get_models
get_models(r) ==
    /\ Finish("get_models", None, <<Authed("GET", "/get_models", None)>>, r,
              ModelsResult(r), workflow_id)
    /\ UNCHANGED adopted

\* list_["models"] and len(...) on what get_models returned
ModelsLookup(list_) ==
    IF list_.shape = "error_map" THEN Raise("KeyError", "", "models", 0)
    ELSE IF list_.body.form # "object" THEN Raise("TypeError", "", "models", 0)
    ELSE IF list_.body.f["models"] = ABSENT THEN Raise("KeyError", "", "models", 0)
    ELSE list_

\* list_["models"] as assign_roles reads it, ABSENT when the lookup raises
ModelsOf(r1) ==
    LET look == ModelsLookup(ModelsResult(r1))
    IN  IF look.kind = "return" THEN look.body.f["models"] ELSE ABSENT

\* assign_roles goes on to its POST: get_models gave a non-empty list of models
ReachesPost(r1) ==
    LET look == ModelsLookup(ModelsResult(r1))
    IN  look.kind = "return" /\ look.body.f["models"] # "[]"

\* assign_roles without the test of len(list_["models"])
assign_roles_unchecked(r1, r2) ==
    LET list_ == ModelsResult(r1)
        look == ModelsLookup(list_)
        get == Authed("GET", "/get_models", None)
        post == Authed("POST", "/assign_roles", None)
        o == CheckedAnswer(r2)
    IN  /\ IF look.kind = "raise"
           THEN Call("assign_roles", None, <<get>>, r1, look, workflow_id, <<>>, 0, ModelsOf(r1))
           ELSE Call("assign_roles", None, <<get, post>>, r2,
                     IF o.kind = "raise" /\ o.exc \in RequestExceptions
                     THEN ReturnError("Failed to assign roles", o.exc) ELSE o,
                     workflow_id, <<>>, 0, ModelsOf(r1))
        /\ UNCHANGED adopted

\* WaveFlowStudio.assign_roles
assign_roles(r1, r2) ==
    LET list_ == ModelsResult(r1)
        look == ModelsLookup(list_)
        get == Authed("GET", "/get_models", None)
        post == Authed("POST", "/assign_roles", None)
        o == CheckedAnswer(r2)
    IN  /\ IF look.kind = "raise"
           THEN Call("assign_roles", None, <<get>>, r1, look, workflow_id, <<>>, 0, ModelsOf(r1))
           ELSE IF look.body.f["models"] = "[]"
           THEN Call("assign_roles", None, <<get>>, r1,
                     ReturnError("No model is added, Please do add one model", ""),
                     workflow_id, <<>>, 0, ModelsOf(r1))
           ELSE Call("assign_roles", None, <<get, post>>, r2,
                     IF o.kind = "raise" /\ o.exc \in RequestExceptions
                     THEN ReturnError("Failed to assign roles", o.exc) ELSE o,
                     workflow_id, <<>>, 0, ModelsOf(r1))
        /\ UNCHANGED adopted

\* the handles still open when a method that opened `opened` files ends: the
\* request returned and onReturn close calls ran, or it raised and onRaise ran
HandlesLeft_leakOnRaise(r, opened, onReturn, onRaise) ==
    IF r.err # "" THEN opened ELSE opened - onReturn

HandlesLeft(r, opened, onReturn, onRaise) ==
    IF r.err # "" THEN opened - onRaise ELSE opened - onReturn

\* WaveFlowStudio.file: with open(...) closes the file when the block is left
file(path_ok, r) ==
    /\ IF ~path_ok
       THEN Finish("file", None, <<>>, r, Raise("OSError", "", "open", 0), workflow_id)
       ELSE Invoke("file", None, <<Authed("POST", "/file", None)>>, r,
                   CheckedAnswer(r), workflow_id, <<>>, HandlesLeft(r, 1, 1, 1))
    /\ UNCHANGED adopted

----------------------------------------------------------------------------
(* Operations that validate a required argument and go through _handle_response *)

\* the values a caller may pass for a required string argument
RequiredArgs == {None, "", "x"}

\* the values a caller may pass where a dict is expected
DictArgs == {None, "{}", "{k}"}

\* the values a caller may pass where a list is expected
ListArgs == {None, "[]", "[a]"}

\* isinstance(v, dict), isinstance(v, list)
IsDict(v) == v \in {"{}", "{k}"}

IsList(v) == v \in {"[]", "[a]"}

\* if not <argument>: raise ValueError(...), with the check left out
ValidatedCall_unchecked(name, method, path, auth, ok, a, r) ==
    /\ Finish(name, a, <<Request(method, base_url, path, auth, None)>>, r,
              ConnectionErrorWrap(HandledAnswer(r)), workflow_id)
    /\ UNCHANGED adopted

\* if not <argument>: return {"error": ...} in place of the raise
ValidatedCall_returning(name, method, path, auth, ok, a, r) ==
    /\ IF ~ok
       THEN Finish(name, a, <<>>, r, ReturnError("is required.", ""), workflow_id)
       ELSE Finish(name, a, <<Request(method, base_url, path, auth, None)>>, r,
                   ConnectionErrorWrap(HandledAnswer(r)), workflow_id)
    /\ UNCHANGED adopted

\* if not <argument>: raise ValueError(...)
\* try: return self._handle_response(requests.<method>(url, ...))
\* except requests.exceptions.RequestException as e: raise Exception(f"Connection error: {e}")
ValidatedCall(name, method, path, auth, ok, a, r) ==
    /\ IF ~ok
       THEN Finish(name, a, <<>>, r, Raise("ValueError", "", "is required.", 0), workflow_id)
       ELSE Finish(name, a, <<Request(method, base_url, path, auth, None)>>, r,
                   ConnectionErrorWrap(HandledAnswer(r)), workflow_id)
    /\ UNCHANGED adopted

\* WaveFlowStudio.rename_workflow
rename_workflow(a, r) ==
    ValidatedCall("rename_workflow", "PUT", "/rename_workflow/", Bearer(api_key), Truthy(a), a, r)

\* WaveFlowStudio.get_workflows_by_model
get_workflows_by_model(a, r) ==
    ValidatedCall("get_workflows_by_model", "GET", "/workflows_by_model", Bearer(api_key),
                  Truthy(a), a, r)

\* WaveFlowStudio.get_workflows_by_tool
get_workflows_by_tool(a, r) ==
    ValidatedCall("get_workflows_by_tool", "GET", "/workflows_by_tool", Bearer(api_key),
                  Truthy(a), a, r)

\* WaveFlowStudio.undeploy_workflow
undeploy_workflow(a, r) ==
    ValidatedCall("undeploy_workflow", "POST", "/undeploy", Bearer(api_key), Truthy(a), a, r)

\* WaveFlowStudio.workflow_admin_run
workflow_admin_run(a, r) ==
    ValidatedCall("workflow_admin_run", "POST", "/workflow-admin-run", Bearer(api_key),
                  Truthy(a), a, r)

\* WaveFlowStudio.delete_connection
delete_connection(a, r) ==
    ValidatedCall("delete_connection", "POST", "/delete_connection", Bearer(api_key),
                  Truthy(a), a, r)

\* WaveFlowStudio.save_prompt: a is the name argument
save_prompt(a, r) ==
    ValidatedCall("save_prompt", "POST", "/save_prompt", Bearer(api_key), Truthy(a), a, r)

\* WaveFlowStudio.fetch_prompt_data
fetch_prompt_data(a, r) ==
    ValidatedCall("fetch_prompt_data", "POST", "/fetch_prompt_data", Bearer(api_key),
                  Truthy(a), a, r)

\* WaveFlowStudio.user_query: requests.post(url, data=payload), no headers
user_query(a, r) ==
    ValidatedCall("user_query", "POST", "/user_query", NoAuth, Truthy(a), a, r)

\* WaveFlowStudio.update_sequence_ids: a is file_name
update_sequence_ids(a, agents, r) ==
    ValidatedCall("update_sequence_ids", "POST", "/sequence-ids", Bearer(api_key),
                  Truthy(a) /\ IsList(agents), a, r)

\* WaveFlowStudio.update_user_runs: a is run_data
update_user_runs(a, r) ==
    ValidatedCall("update_user_runs", "POST", "/update-user-runs", Bearer(api_key),
                  IsDict(a), a, r)

----------------------------------------------------------------------------
(* Operations that validate a required argument and report by returning *)

\* return {"message": data.get("message")}
ReturnMessageOf(b) ==
    [NoResult EXCEPT !.kind = "return", !.shape = "message",
                     !.msg = IF b.f["message"] # ABSENT THEN b.f["message"] ELSE None]

\* return {"error": data.get("error", default)}
ReturnErrorOf(b, default) ==
    ReturnError("", IF b.f["error"] # ABSENT THEN b.f["error"] ELSE default)

\* if not <argument>: return {"error": "... is required."}, then the request
ReturningCall(name, method, path, a, r, outcome) ==
    /\ IF ~Truthy(a)
       THEN Finish(name, a, <<>>, r, ReturnError("is required.", ""), workflow_id)
       ELSE Finish(name, a, <<Authed(method, path, None)>>, r, outcome, workflow_id)
    /\ UNCHANGED adopted

\* WaveFlowStudio.delete_model
delete_model(a, r) ==
    LET d == DecodeAnswer(r)
        o == IF d.kind = "raise" THEN d
             ELSE IF d.body.form # "object" THEN Raise("AttributeError", "", "get", 0)
             ELSE IF r.status = 200 THEN ReturnMessageOf(d.body)
             ELSE ReturnErrorOf(d.body, "Unknown error")
    IN  ReturningCall("delete_model", "DELETE", "/delete_model/", a, r, RequestFailedWrap(o))

\* WaveFlowStudio.get_tool_info
get_tool_info(a, r) ==
    LET d == DecodeAnswer(r)
        o == IF d.kind = "raise" \/ r.status = 200 THEN d
             ELSE IF d.body.form # "object" THEN Raise("AttributeError", "", "get", 0)
             ELSE ReturnErrorOf(d.body, "Unknown error occurred")
    IN  ReturningCall("get_tool_info", "GET", "/app_info", a, r, RequestFailedWrap(o))

\* WaveFlowStudio.get_tool_fields: no modelled body has the key fields, so
\* data.get("fields", data) is data
get_tool_fields(a, r) ==
    LET d == DecodeAnswer(r)
        o == IF d.kind = "raise" THEN d
             ELSE IF d.body.form # "object" THEN Raise("AttributeError", "", "get", 0)
             ELSE IF r.status = 200 THEN d
             ELSE ReturnErrorOf(d.body, "Unknown error occurred")
    IN  ReturningCall("get_tool_fields", "POST", "/fields", a, r, RequestFailedWrap(o))

\* return data["result"]
ReturnToolResult == [NoResult EXCEPT !.kind = "return", !.shape = "result"]

\* WaveFlowStudio.execute_tool
execute_tool(a, r) ==
    LET d == DecodeAnswer(r)
        o == IF d.kind = "raise" THEN d
             ELSE IF d.body.form # "object" THEN Raise("AttributeError", "", "get", 0)
             ELSE IF r.status = 200 /\ Truthy(d.body.f["success"]) THEN ReturnToolResult
             ELSE ReturnErrorOf(d.body, "data")
    IN  ReturningCall("execute_tool", "POST", "/execute", a, r, RequestFailedWrap(o))

\* except requests.exceptions.HTTPError as http_err:
\*     try: return http_err.response.json()
\*     except JSONDecodeError: return {"status": "error", "message": f"HTTP error: ...", ...}
\* except requests.exceptions.RequestException: return {"status": "error", "message": "Request failed: ..."}
FileErrorWrap(r, o) ==
    IF o.kind = "raise" /\ o.exc = "HTTPError"
    THEN IF r.body.form = "text" THEN ReturnStatusError("HTTP error") ELSE ReturnBody(r.body)
    ELSE IF o.kind = "raise" /\ o.exc \in RequestExceptions
         THEN ReturnStatusError("Request failed")
    ELSE IF o.kind = "raise" THEN ReturnStatusError("An unexpected error occurred")
    ELSE o

\* WaveFlowStudio.view_file
view_file(a, r) ==
    ReturningCall("view_file", "GET", "/view_file", a, r, FileErrorWrap(r, CheckedAnswer(r)))

\* what download_file meets: the Content-Type of the response and, for a
\* file, whether save_path is given and whether writing to it succeeds
DownloadModes == {"json", "file", "file-saved", "file-save-fails", "other"}

\* return {"status": "success", ...}
ReturnSuccess == [NoResult EXCEPT !.kind = "return", !.shape = "success"]

\* WaveFlowStudio.download_file
download_file(a, mode, r) ==
    LET o == IF r.err # "" THEN Raise(r.err, "", r.err, 0)
             ELSE IF RaisesForStatus(r) THEN Raise("HTTPError", "", "status", r.status)
             ELSE IF mode = "json" THEN DecodeAnswer(r)
             ELSE IF mode \in {"file", "file-saved"} THEN ReturnSuccess
             ELSE IF mode = "file-save-fails" THEN ReturnStatusError("Failed to save file")
             ELSE ReturnStatusError("Unexpected content type")
    IN  ReturningCall("download_file", "GET", "/download_file", a, r, FileErrorWrap(r, o))

----------------------------------------------------------------------------
(* Operations that send no credential of the client, and uploads *)

\* except requests.exceptions.HTTPError: return {"error": "HTTP error occurred", ...}
\* except requests.exceptions.RequestException: return {"error": "Request failed", ...}
HttpErrorWrap(o) ==
    IF o.kind = "raise" /\ o.exc = "HTTPError" THEN ReturnError("HTTP error occurred", o.exc)
    ELSE IF o.kind = "raise" /\ o.exc \in RequestExceptions
         THEN ReturnError("Request failed", o.exc)
    ELSE o

\* WaveFlowStudio.get_apps: requests.get(url), no headers
get_apps(r) ==
    /\ Finish("get_apps", None, <<Request("GET", base_url, "/apps", NoAuth, None)>>, r,
              HttpErrorWrap(CheckedAnswer(r)), workflow_id)
    /\ UNCHANGED adopted

\* WaveFlowStudio.extract_text: requests.post(url, files=files) inside with open(...)
extract_text(path_ok, r) ==
    /\ IF ~path_ok
       THEN Finish("extract_text", None, <<>>, r, ReturnError("File not found", ""), workflow_id)
       ELSE Invoke("extract_text", None,
                   <<Request("POST", base_url, "/extract-text", NoAuth, None)>>, r,
                   HttpErrorWrap(CheckedAnswer(r)), workflow_id, <<>>, HandlesLeft(r, 1, 1, 1))
    /\ UNCHANGED adopted

\* WaveFlowStudio.upload_file: the request inside with open(...), then response.json()
upload_file(path_ok, r) ==
    LET o == IF r.err # "" THEN ReturnError("", r.err)
             ELSE IF r.body.form = "text" THEN ReturnError("Invalid JSON response", "")
             ELSE ReturnBody(r.body)
    IN  /\ IF ~path_ok
           THEN Finish("upload_file", None, <<>>, r, ReturnError("File not found", ""),
                       workflow_id)
           ELSE Invoke("upload_file", None, <<Authed("POST", "/file_upload", None)>>, r, o,
                       workflow_id, <<>>, HandlesLeft(r, 1, 1, 1))
        /\ UNCHANGED adopted

\* WaveFlowStudio.chat_pdf: the file is opened if file_path names one, and
\* closed in the finally clause if it was opened
chat_pdf(a, has_file, r) ==
    LET opened == IF has_file THEN 1 ELSE 0
    IN  /\ Invoke("chat_pdf", a, <<Authed("POST", "/chat_pdf", a)>>, r,
                  RequestFailedWrap(CheckedAnswer(r)), workflow_id, <<>>,
                  HandlesLeft(r, opened, opened, opened))
        /\ UNCHANGED adopted

\* the tokens a caller may hand to add_tool
Tokens == { <<"t">>, <<"e", "y", "J">> }

\* WaveFlowStudio.add_tool: the header carries the token argument; the file
\* is closed after the request and in the except clause
add_tool(tok, path_ok, r) ==
    LET o == IF r.err # "" THEN ReturnError("Request failed", r.err)
             ELSE IF r.body.form = "text" THEN ReturnError("Invalid response format", "")
             ELSE ReturnBody(r.body)
    IN  /\ IF ~path_ok
           THEN Invoke("add_tool", None, <<>>, r,
                       Raise("FileNotFoundError", "", "File not found at path", 0),
                       workflow_id, tok, 0)
           ELSE Invoke("add_tool", None,
                       <<Request("POST", base_url, "/add-tools", Bearer(tok), None)>>, r, o,
                       workflow_id, tok, HandlesLeft(r, 1, 1, 1))
        /\ UNCHANGED adopted

\* str(uuid.uuid4()): an identifier made by the client, none the server or the caller has
FreshId == "uuid"

\* if not session_id: session_id = str(uuid.uuid4())
OwnSession(a) == IF Truthy(a) THEN a ELSE FreshId

\* enhance_prompt returning the body as the server sent it
enhance_prompt_asReceived(a, r) ==
    LET sid == OwnSession(a)
        d == DecodeAnswer(r)
        o == IF d.kind = "raise" THEN d
             ELSE IF r.status # 200
                  THEN IF d.body.form # "object" THEN Raise("AttributeError", "", "get", 0)
                       ELSE ReturnErrorOf(d.body, "Unknown error occurred")
             ELSE IF d.body.form # "object" THEN Raise("TypeError", "", "session_id", 0)
             ELSE ReturnBody(d.body)
    IN  /\ Finish("enhance_prompt", a, <<Authed("POST", "/enhance_prompt", sid)>>, r,
                  ErrorMapWrap("", o), workflow_id)
        /\ UNCHANGED adopted

\* WaveFlowStudio.enhance_prompt
enhance_prompt(a, r) ==
    LET sid == OwnSession(a)
        d == DecodeAnswer(r)
        o == IF d.kind = "raise" THEN d
             ELSE IF r.status # 200
                  THEN IF d.body.form # "object" THEN Raise("AttributeError", "", "get", 0)
                       ELSE ReturnErrorOf(d.body, "Unknown error occurred")
             ELSE IF d.body.form # "object" THEN Raise("TypeError", "", "session_id", 0)
             ELSE ReturnBody([d.body EXCEPT !.f["session_id"] = sid])
    IN  /\ Finish("enhance_prompt", a, <<Authed("POST", "/enhance_prompt", sid)>>, r,
                  ErrorMapWrap("", o), workflow_id)
        /\ UNCHANGED adopted

\* surprise_me keeping the session it used as the current one
surprise_me_adopting(a, r) ==
    LET o == CheckedAnswer(r)
    IN  /\ Finish("surprise_me", a, <<Authed("GET", "/surprise_me", OwnSession(a))>>, r,
                  IF o.kind = "raise" /\ o.exc \in RequestExceptions
                  THEN ReturnError("Failed to fetch models", o.exc)
                  ELSE o,
                  OwnSession(a))
        /\ UNCHANGED adopted

\* WaveFlowStudio.surprise_me
surprise_me(a, r) ==
    LET o == CheckedAnswer(r)
    IN  /\ Finish("surprise_me", a, <<Authed("GET", "/surprise_me", OwnSession(a))>>, r,
                  IF o.kind = "raise" /\ o.exc \in RequestExceptions
                  THEN ReturnError("Failed to fetch models", o.exc)
                  ELSE o,
                  workflow_id)
        /\ UNCHANGED adopted

\* WaveFlowStudio.get_user_details
get_user_details(r) ==
    /\ Finish("get_user_details", None, <<Authed("GET", "/user", None)>>, r,
              ConnectionErrorWrap(HandledAnswer(r)), workflow_id)
    /\ UNCHANGED adopted

----------------------------------------------------------------------------
(* The client in use *)

\* the answers to the requests of each operation, by the keys its code reads
WorkflowAnswers == OpAnswers({"workflow_id"})

SessionAnswers == OpAnswers({"session_id"})

ModelsAnswers == OpAnswers({"models"})

DeleteAnswers == OpAnswers({"message", "error"})

DeployAnswers == OpAnswers({"detail", "status_code"})

ConfigAnswers == OpAnswers({"status_code", "message"})

ErrorAnswers == OpAnswers({"error"})

ToolAnswers == OpAnswers({"error", "success"})

PromptAnswers == OpAnswers({"error", "session_id"})

\* the answers the transport can give to a call: none if the call is rejected
\* before it reaches the transport
AnswersFor(ok, answers) == IF ok THEN answers ELSE {NoAnswer}

\* a shorter list of answers: one transport failure, a success and a failure status
LeanAnswers ==
    { r \in ErrorAnswers : r.err \in {"", "ConnectionError"} /\ r.status \in {0, 200, 500} }

LeanFor(ok) == IF ok THEN LeanAnswers ELSE {NoAnswer}

Init == \E key \in {<<"A", "A", "A", "I", "-", "k">>, <<"e", "y", "J">>} : Ready(key) /\ resp = NoAnswer

Next ==
    \/ \E ok \in BOOLEAN : \E r \in AnswersFor(ok, WorkflowAnswers) : create_workflow(ok, r)
    \/ \E r \in AnswersFor(Truthy(workflow_id), SessionAnswers) : chat(r)
    \/ \E a \in SessionIds, r \in SessionAnswers : create_agent(a, r)
    \/ \E r1 \in ModelsAnswers : \E r2 \in AnswersFor(ReachesPost(r1), SessionAnswers) :
          assign_roles(r1, r2)
    \/ \E a \in SessionArgs :
          \E r \in AnswersFor(Truthy(SessionFor(a, workflow_id)), SessionAnswers) :
             save_workflow(a, r)
    \/ \E a \in SessionArgs :
          \E r \in AnswersFor(Truthy(SessionFor(a, workflow_id)), SessionAnswers) :
             run_workflow(a, r)
    \/ \E a \in SessionArgs : \E r \in AnswersFor(Truthy(a), DeleteAnswers) :
          delete_workflow(a, r)
    \/ \E a \in RequiredArgs : \E r \in AnswersFor(Truthy(a), DeployAnswers) :
          deploy_workflow(a, r)
    \/ \E a \in RequiredArgs : \E r \in AnswersFor(Truthy(a), ConfigAnswers) :
          create_workflow_config(a, r)
    \/ \E r \in ModelsAnswers : get_models(r)
    \/ \E ok \in BOOLEAN : \E r \in AnswersFor(ok, SessionAnswers) : file(ok, r)
    \/ \E a \in RequiredArgs : \E r \in LeanFor(Truthy(a)) : rename_workflow(a, r)
    \/ \E a \in RequiredArgs : \E r \in LeanFor(Truthy(a)) :
          get_workflows_by_model(a, r)
    \/ \E a \in RequiredArgs : \E r \in LeanFor(Truthy(a)) :
          get_workflows_by_tool(a, r)
    \/ \E a \in RequiredArgs : \E r \in AnswersFor(Truthy(a), ErrorAnswers) :
          undeploy_workflow(a, r)
    \/ \E a \in RequiredArgs : \E r \in AnswersFor(Truthy(a), ErrorAnswers) : workflow_admin_run(a, r)
    \/ \E a \in RequiredArgs : \E r \in LeanFor(Truthy(a)) : delete_connection(a, r)
    \/ \E a \in RequiredArgs : \E r \in LeanFor(Truthy(a)) : save_prompt(a, r)
    \/ \E a \in RequiredArgs : \E r \in LeanFor(Truthy(a)) : fetch_prompt_data(a, r)
    \/ \E a \in RequiredArgs : \E r \in AnswersFor(Truthy(a), ErrorAnswers) : user_query(a, r)
    \/ \E a \in RequiredArgs, agents \in ListArgs :
          \E r \in LeanFor(Truthy(a) /\ IsList(agents)) :
          update_sequence_ids(a, agents, r)
    \/ \E a \in DictArgs : \E r \in LeanFor(IsDict(a)) : update_user_runs(a, r)
    \/ \E a \in RequiredArgs : \E r \in AnswersFor(Truthy(a), DeleteAnswers) :
          delete_model(a, r)
    \/ \E a \in RequiredArgs : \E r \in AnswersFor(Truthy(a), ErrorAnswers) : get_tool_info(a, r)
    \/ \E a \in RequiredArgs : \E r \in LeanFor(Truthy(a)) : get_tool_fields(a, r)
    \/ \E a \in RequiredArgs : \E r \in AnswersFor(Truthy(a), ToolAnswers) :
          execute_tool(a, r)
    \/ \E a \in RequiredArgs : \E r \in LeanFor(Truthy(a)) : view_file(a, r)
    \/ \E a \in RequiredArgs, mode \in DownloadModes : \E r \in LeanFor(Truthy(a)) :
          download_file(a, mode, r)
    \/ \E r \in LeanAnswers : get_apps(r)
    \/ \E ok \in BOOLEAN : \E r \in LeanFor(ok) : extract_text(ok, r)
    \/ \E ok \in BOOLEAN : \E r \in LeanFor(ok) : upload_file(ok, r)
    \/ \E a \in SessionIds, has_file \in BOOLEAN, r \in LeanAnswers :
          chat_pdf(a, has_file, r)
    \/ \E tok \in Tokens, ok \in BOOLEAN : \E r \in LeanFor(ok) : add_tool(tok, ok, r)
    \/ \E a \in SessionArgs, r \in PromptAnswers : enhance_prompt(a, r)
    \/ \E a \in SessionArgs, r \in LeanAnswers : surprise_me(a, r)
    \/ \E r \in LeanAnswers : get_user_details(r)

Spec == Init /\ [][Next]_vars

\* the credentials of the clients whose whole life is followed
ClientKeys == {<<"A", "A", "A", "I", "-", "k">>, <<"e", "y", "J">>}

\* a client from before its construction: __init__, then the operations
NextLife ==
    \/ \E key \in ClientKeys, r \in AnswersWith(UserKeys) : Construct(key, <<"h">>, r)
    \/ Next

SpecLife == InitNew /\ [][NextLife]_vars

----------------------------------------------------------------------------
(* Outcomes of the public operations *)

\* the last invocation issued a request and the transport answered with a response
Answered == op # "none" /\ sent # <<>> /\ resp.err = ""

\* the last invocation issued a request and the transport raised
TransportFailed == op # "none" /\ sent # <<>> /\ resp.err # ""

\* the modelled operations that are built on self._handle_response(response)
HandleResponseOps == {"deploy_workflow", "create_workflow_config"}

\* C6: a 2xx response whose body is not JSON makes an operation built on
\* _handle_response end with the decode-failure descriptor (a message, no
\* body), not with an exception.
C6_DecodeFailureResult ==
    (op \in HandleResponseOps /\ Answered /\ Is2xx(resp) /\ resp.body.form = "text")
    => (/\ result.kind = "return"
        /\ result.shape = "status_error"
        /\ result.msg = "Unknown server error"
        /\ result.body = NoBody)

\* C7: when the transport fails, every operation ends with a transport-failure
\* result carrying the cause (an error mapping, or a raised generic Exception);
\* no exception of the transport library escapes.
C7_TransportFailureResult ==
    TransportFailed
    => \/ (result.kind = "return" /\ result.shape = "error_map" /\ result.msg = resp.err)
       \/ (result.kind = "raise" /\ result.exc = "Exception" /\ result.msg = resp.err)

InternalExceptions == {"KeyError", "AttributeError", "TypeError"}

\* C8: every invocation ends with a decoded payload or a structured error (an
\* error mapping or a raised Exception with a message), never with an internal
\* exception such as a missing key; assign_roles after a failed get_models too.
C8_TwoShapes ==
    op # "none"
    => \/ result.kind = "return"
       \/ (result.kind = "raise" /\ result.exc \notin InternalExceptions /\ result.msg # "")

\* the session identifier a response body carries, if any
HasSessionField(b) ==
    Has(b, "session_id") \/ (Has(b, "workflow_id") /\ b.f["workflow_id"] # "")

SessionField(b) == IF Has(b, "session_id") THEN b.f["session_id"] ELSE b.f["workflow_id"]

\* C9 as stated: after any call whose response carries a session identifier
\* the current session is that identifier, and after any call whose response
\* carries none it is what it was before the call.
C9_AnyCallAdopts ==
    Answered
    => /\ HasSessionField(resp.body) => workflow_id = SessionField(resp.body)
       /\ ~HasSessionField(resp.body) => workflow_id = before

\* C9 amended: after a save_workflow or run_workflow call whose decoded body
\* has a session_id field the current session is that value, and after such a
\* call whose response has no such field it is what it was before the call.
C9_SaveRunAdopt ==
    (op \in {"save_workflow", "run_workflow"} /\ sent # <<>>)
    => /\ Has(resp.body, "session_id") => workflow_id = resp.body.f["session_id"]
       /\ ~Has(resp.body, "session_id") => workflow_id = before

C9_Witness ==
    /\ op = "save_workflow"
    /\ before = "s1"
    /\ Has(resp.body, "session_id")
    /\ resp.body.f["session_id"] = "s2"
    /\ workflow_id = "s2"

\* C10: the current session is unset or exactly the identifier of the most
\* recent adopting response; nothing of an earlier identifier is kept.
C10_OneCurrentSession == workflow_id \in {None, adopted}

C10_Witness ==
    /\ op = "create_workflow"
    /\ before = "s1"
    /\ resp.body.f["workflow_id"] = "s2"
    /\ adopted = "s2"
    /\ workflow_id = "s2"

----------------------------------------------------------------------------
(* The stored credential and base address *)

\* C11: no public operation changes api_key or base_url; in particular the
\* token handed to add_tool does not replace the stored credential.
C11_CredentialAndBaseFixed ==
    [][api_key' = api_key /\ base_url' = base_url]_vars

C11_Witness ==
    /\ op = "add_tool"
    /\ sent # <<>>
    /\ sent[1].auth = Bearer(token)
    /\ token # api_key

----------------------------------------------------------------------------
(* Client-side validation *)

\* the operations that check a required argument before any request
RaisingOps ==
    {"deploy_workflow", "rename_workflow", "create_workflow_config", "undeploy_workflow",
     "workflow_admin_run", "delete_connection", "save_prompt", "fetch_prompt_data",
     "user_query", "update_sequence_ids", "update_user_runs", "get_workflows_by_model",
     "get_workflows_by_tool"}

ReturningOps ==
    {"delete_workflow", "delete_model", "download_file", "view_file", "get_tool_info",
     "get_tool_fields", "execute_tool"}

ValidatingOps == RaisingOps \cup ReturningOps

\* the checked argument of the last invocation was missing (None) or empty
MissingOrEmpty == arg \in {None, "", "{}", "[]"}

\* the check the last invocation applied to arg rejects it: update_user_runs
\* tests isinstance(run_data, dict), every other operation tests truthiness
Rejected == IF op = "update_user_runs" THEN ~IsDict(arg) ELSE ~Truthy(arg)

\* C12 as stated: a validating operation invoked with its checked argument
\* missing or empty issues no request and leaves workflow_id unchanged.
C12_MissingOrEmptyNoRequest ==
    (op \in ValidatingOps /\ MissingOrEmpty) => (sent = <<>> /\ workflow_id = before)

\* C12 amended: a validating operation whose check rejects the argument (None
\* or empty for the truthiness checks, not a dict for update_user_runs) issues
\* no request and leaves workflow_id unchanged; update_user_runs with an
\* empty dict passes its check and issues its request.
C12_RejectedNoRequest ==
    /\ (op \in ValidatingOps /\ Rejected) => (sent = <<>> /\ workflow_id = before)
    /\ (op = "update_user_runs" /\ arg = "{}") => Len(sent) = 1

C12_Witness ==
    /\ op = "delete_workflow"
    /\ arg = ""
    /\ before = "s1"
    /\ workflow_id = "s1"
    /\ sent = <<>>

\* C13 as stated: every validating operation signals a rejected argument by
\* raising a validation error, never by returning a value.
C13_ValidationRaises ==
    (op \in ValidatingOps /\ Rejected) => (result.kind = "raise" /\ result.exc = "ValueError")

\* C13 amended: a rejected argument makes the thirteen operations of
\* RaisingOps raise ValueError, and makes the seven operations of
\* ReturningOps return an error mapping {"error": ...} without raising.
C13_RaiseOrReturnByOperation ==
    /\ (op \in RaisingOps /\ Rejected)
       => (result.kind = "raise" /\ result.exc = "ValueError")
    /\ (op \in ReturningOps /\ Rejected)
       => (result.kind = "return" /\ result.shape = "error_map" /\ result.label # "")

C13_Witness ==
    /\ op = "rename_workflow"
    /\ arg = None
    /\ sent = <<>>
    /\ result.kind = "raise"
    /\ result.exc = "ValueError"

----------------------------------------------------------------------------
(* Requests *)

\* the operations whose request has no Authorization header
AnonymousOps == {"get_apps", "extract_text", "user_query"}

\* C14: every request carries Authorization: Bearer <own api_key>, except
\* that get_apps, extract_text and user_query send no Authorization header
\* and add_tool sends the token it was handed.
C14_Authorization ==
    \A i \in 1..Len(sent) :
        sent[i].auth = IF op \in AnonymousOps THEN NoAuth
                       ELSE IF op = "add_tool" THEN Bearer(token)
                       ELSE Bearer(api_key)

C14_Witness ==
    /\ op = "assign_roles"
    /\ Len(sent) = 2
    /\ api_key = <<"e", "y", "J">>
    /\ sent[1].auth = Bearer(<<"e", "y", "J">>)
    /\ sent[2].auth = Bearer(<<"e", "y", "J">>)

----------------------------------------------------------------------------
(* File handles *)

\* the operations that open a file to upload it
UploadOps == {"add_tool", "chat_pdf", "upload_file", "extract_text", "file"}

\* C15: when an upload operation ends, by returning or by raising, every
\* file handle it opened has been closed.
C15_HandlesClosed == op \in UploadOps => handles = 0

C15_Witness ==
    /\ op = "add_tool"
    /\ sent # <<>>
    /\ resp.err = "ConnectionError"
    /\ result = ReturnError("Request failed", "ConnectionError")
    /\ handles = 0

----------------------------------------------------------------------------
(* How many requests an invocation issues *)

\* the last invocation ended in one of its client-side checks, before any request
FailedChecks ==
    \/ result.kind = "raise" /\ result.exc \in {"ValueError", "FileNotFoundError", "OSError"}
    \/ op \in ReturningOps /\ ~Truthy(arg)
    \/ op = "chat" /\ ~Truthy(before)
    \/ op \in {"save_workflow", "run_workflow"} /\ ~Truthy(SessionFor(arg, before))
    \/ op \in {"extract_text", "upload_file"} /\ result = ReturnError("File not found", "")
    \/ op = "create_workflow" /\ result = ReturnError("", "OSError")

\* C16 as stated: an invocation that passes its client-side checks issues
\* exactly one request (and one that fails them issues none).
C16_ExactlyOneRequest ==
    op # "none" => Len(sent) = IF FailedChecks THEN 0 ELSE 1

\* C16 amended: every operation but assign_roles issues exactly one request
\* when its checks pass and none when they fail; assign_roles issues GET
\* /get_models and then at most one POST /assign_roles; no request is issued
\* twice in an invocation, whatever the transport or the status answers.
C16_OneRequestNoReissue ==
    /\ (op \notin {"none", "assign_roles"}) => Len(sent) = IF FailedChecks THEN 0 ELSE 1
    /\ op = "assign_roles"
       => /\ Len(sent) \in {1, 2}
          /\ sent[1] = Authed("GET", "/get_models", None)
          /\ Len(sent) = 2 => sent[2] = Authed("POST", "/assign_roles", None)
    /\ \A i, j \in 1..Len(sent) : sent[i] = sent[j] => i = j

C16_Witness ==
    /\ op = "workflow_admin_run"
    /\ resp.err = "Timeout"
    /\ Len(sent) = 1
    /\ result = Raise("Exception", "Connection error", "Timeout", 0)

----------------------------------------------------------------------------
(* The request address *)

\* C17 as stated: the address of a request is the base_url given to the
\* constructor with exactly one trailing slash trimmed, joined to the path
\* (which begins with its own "/"), so that the join has neither a double
\* nor a missing slash.
C17_TrimExactlyOne ==
    op = "__init__"
    => LET n == Len(given_url)
           trimmed == IF n > 0 /\ given_url[n] = "/" THEN SubSeq(given_url, 1, n - 1)
                      ELSE given_url
       IN  /\ base_url = trimmed
           /\ \A i \in 1..Len(sent) : sent[i].base = trimmed

\* C17 amended: the address of a request is the base_url given to the
\* constructor with all of its trailing slashes trimmed, joined to the path,
\* which begins with its own "/": the base part does not end with a slash,
\* so the join has neither a double nor a missing slash.
C17_TrimAllTrailing ==
    op = "__init__"
    => LET n == Len(base_url)
       IN  /\ n <= Len(given_url)
           /\ SubSeq(given_url, 1, n) = base_url
           /\ \A i \in (n + 1)..Len(given_url) : given_url[i] = "/"
           /\ n > 0 => base_url[n] # "/"
           /\ \A i \in 1..Len(sent) : sent[i].base = base_url /\ sent[i].path = "/user"

C17_Witness ==
    /\ op = "__init__"
    /\ given_url = <<"h", "/", "/">>
    /\ base_url = <<"h">>
    /\ Len(sent) = 1
    /\ sent[1].base = <<"h">>

----------------------------------------------------------------------------
(* save_workflow and run_workflow called from two threads on one client *)

\* the fields of the client and of the last sequential invocation, which a
\* call in progress on a thread leaves alone
RaceFrame ==
    UNCHANGED <<phase, api_key, base_url, op, arg, sent, resp, result, before,
                given_url, token, handles, fetched, validations>>

\* a thread enters save_workflow or run_workflow: sid = session_id or
\* self.workflow_id is read, and the request leaves unless sid is empty
Begin(t, name, a) ==
    LET sid == SessionFor(a, workflow_id)
    IN  /\ phase = "ready"
        /\ threads[t].pc = "idle"
        /\ threads' = [threads EXCEPT ![t] =
                         [pc |-> IF Truthy(sid) THEN "sent" ELSE "done",
                          name |-> name, a |-> a,
                          sid |-> IF Truthy(sid) THEN sid ELSE None,
                          got |-> ABSENT]]
        /\ UNCHANGED <<workflow_id, adopted>>
        /\ RaceFrame

\* the answer arrives on that thread: data = response.json(), and
\* if "session_id" in data: self.workflow_id = data["session_id"]
Complete(t, r) ==
    LET d == DecodeAnswer(r)
        carries == r.err = "" /\ Has(r.body, "session_id")
    IN  /\ threads[t].pc = "sent"
        /\ workflow_id' = IF d.kind = "return" THEN AdoptSession(workflow_id, d.body)
                          ELSE workflow_id
        /\ adopted' = IF carries THEN r.body.f["session_id"] ELSE adopted
        /\ threads' = [threads EXCEPT ![t].pc = "done",
                                      ![t].got = IF carries THEN r.body.f["session_id"]
                                                 ELSE ABSENT]
        /\ RaceFrame

\* the call has returned to its caller; the thread may call again
Return(t) ==
    /\ threads[t].pc = "done"
    /\ threads' = [threads EXCEPT ![t] = Idle]
    /\ UNCHANGED <<workflow_id, adopted>>
    /\ RaceFrame

InitRace == Ready(<<"A", "A", "A", "I", "-", "k">>) /\ resp = NoAnswer

NextRace ==
    \/ \E t \in Threads, name \in {"save_workflow", "run_workflow"}, a \in SessionArgs :
          Begin(t, name, a)
    \/ \E t \in Threads, r \in OpAnswers({"session_id"}) : Complete(t, r)
    \/ \E t \in Threads : Return(t)

SpecRace == InitRace /\ [][NextRace]_vars

\* both threads have finished a call whose response carried a session_id
BothAdopted ==
    \A t \in Threads : threads[t].pc = "done" /\ threads[t].got # ABSENT

\* C18: when two concurrent save_workflow/run_workflow calls have received
\* responses carrying identifiers a and b, workflow_id is a or b, namely the
\* one written last; a call without an explicit session_id sends the
\* workflow_id it read when it began.
C18_LastWriterWins ==
    /\ BothAdopted => (workflow_id \in {threads[1].got, threads[2].got} /\ workflow_id = adopted)
    /\ \A t \in Threads :
          (threads[t].pc = "sent" /\ ~Truthy(threads[t].a))
          => threads[t].sid \in SessionIds

\* both calls were sent under the identifier s2 that was current before them,
\* thread 2 without an explicit session_id; the responses carried s1 and s2,
\* and s1, written last, stands
C18_Witness ==
    /\ BothAdopted
    /\ threads[1].got = "s1"
    /\ threads[2].got = "s2"
    /\ threads[2].a = None
    /\ threads[2].sid = "s2"
    /\ threads[1].sid = "s2"
    /\ workflow_id = "s1"
    /\ adopted = "s1"

----------------------------------------------------------------------------
(* The session a call is made under *)

\* C19: chat issues its request only when workflow_id is set at the call,
\* which is the case only while the identifier supplied by the most recent
\* adopting response of create_workflow, save_workflow or run_workflow
\* stands; otherwise chat returns the error mapping "Workflow not created.
\* Call create_workflow first." and issues no request.
C19_ChatNeedsWorkflow ==
    /\ op = "chat"
       => IF Truthy(before)
          THEN sent = <<Authed("POST", "/workflow-run-chat-pdf-sdk", None)>>
          ELSE /\ sent = <<>>
               /\ result = ReturnError("Workflow not created. Call create_workflow first.", "")
    /\ Truthy(workflow_id) => workflow_id = adopted

C19_Witness ==
    /\ op = "chat"
    /\ before = "s1"
    /\ adopted = "s1"
    /\ Len(sent) = 1

\* C20: save_workflow and run_workflow send as Sessionid the session_id
\* argument when it is given and non-empty, otherwise the stored
\* workflow_id; when neither is available they return an error mapping,
\* issue no request and leave workflow_id unchanged.
C20_SessionHeader ==
    op \in {"save_workflow", "run_workflow"}
    => IF Truthy(arg) THEN Len(sent) = 1 /\ sent[1].sessionid = arg
       ELSE IF Truthy(before) THEN Len(sent) = 1 /\ sent[1].sessionid = before
       ELSE /\ sent = <<>>
            /\ result.kind = "return"
            /\ result.shape = "error_map"
            /\ workflow_id = before

C20_Witness ==
    /\ op = "run_workflow"
    /\ arg = "s2"
    /\ before = "s1"
    /\ Len(sent) = 1
    /\ sent[1].sessionid = "s2"

----------------------------------------------------------------------------
(* create_workflow_config and the embedded status *)

\* C21: create_workflow_config returns a body only when the HTTP status is
\* successful (2xx), the body decodes and its embedded status_code is 200,
\* and then returns that body; in every other case it raises.
C21_ConfigReturnsOnlyChecked ==
    (op = "create_workflow_config" /\ sent # <<>>)
    => IF /\ resp.err = ""
          /\ Is2xx(resp)
          /\ Has(resp.body, "status_code")
          /\ resp.body.f["status_code"] = "200"
       THEN result = ReturnBody(resp.body)
       ELSE result.kind = "raise"

----------------------------------------------------------------------------
(* Clearing the session *)

\* C22: delete_workflow(s) sets workflow_id to None exactly when the server
\* answers 200 with a body that decodes and workflow_id was s before the
\* call, and leaves it unchanged otherwise; while workflow_id is None, chat
\* and save_workflow/run_workflow without a session_id return their
\* no-session error and issue no request, and only an adoption by
\* create_workflow, save_workflow or run_workflow sets it again.
C22_DeleteClears ==
    /\ op = "delete_workflow"
       => workflow_id = IF /\ sent # <<>>
                           /\ resp.err = ""
                           /\ resp.status = 200
                           /\ IsJson(resp.body)
                           /\ before = arg
                        THEN None ELSE before
    /\ (op = "chat" /\ before = None)
       => (/\ sent = <<>>
           /\ result = ReturnError("Workflow not created. Call create_workflow first.", ""))
    /\ (op \in {"save_workflow", "run_workflow"} /\ ~Truthy(arg) /\ before = None)
       => (/\ sent = <<>>
           /\ result = ReturnError("No session_id found", ""))
    /\ (before = None /\ workflow_id # None)
       => op \in {"create_workflow", "save_workflow", "run_workflow"}

C22_Witness ==
    /\ op = "delete_workflow"
    /\ arg = "s1"
    /\ before = "s1"
    /\ resp.status = 200
    /\ workflow_id = None

----------------------------------------------------------------------------
(* enhance_prompt *)

\* the last call was enhance_prompt and the server answered 200 with a JSON object
EnhancedObject ==
    /\ op = "enhance_prompt"
    /\ resp.err = ""
    /\ resp.status = 200
    /\ resp.body.form = "object"

\* C23 as the specification states it: enhance_prompt sends the caller's
\* session_id, or a fresh client-side identifier when none is supplied; on
\* every 200 response the returned mapping's session_id equals the Sessionid
\* header of the request; on any other status it returns an error mapping;
\* workflow_id is unchanged.
C23_SessionOnEvery200 ==
    op = "enhance_prompt"
    => /\ Len(sent) = 1
       /\ sent[1].sessionid = IF Truthy(arg) THEN arg ELSE FreshId
       /\ (resp.err = "" /\ resp.status = 200)
          => (/\ result.shape = "payload"
              /\ result.body.f["session_id"] = sent[1].sessionid)
       /\ (resp.err = "" /\ resp.status # 200) => result.shape = "error_map"
       /\ workflow_id = before

\* C23: enhance_prompt sends the caller's session_id, or a fresh client-side
\* identifier when none (or an empty one) is supplied; on a 200 response
\* whose body is a JSON object it returns that object with session_id set to
\* the Sessionid header of the request; on any other status, on a 200
\* response whose body is not a JSON object and on a transport failure it
\* returns an error mapping; workflow_id is unchanged.
C23_SessionOnDecoded200 ==
    op = "enhance_prompt"
    => /\ Len(sent) = 1
       /\ sent[1].sessionid = IF Truthy(arg) THEN arg ELSE FreshId
       /\ FreshId \notin SessionArgs
       /\ IF EnhancedObject
          THEN /\ result.shape = "payload"
               /\ result.body.f["session_id"] = sent[1].sessionid
               /\ \A k \in BodyKeys \ {"session_id"} : result.body.f[k] = resp.body.f[k]
          ELSE result.kind = "return" /\ result.shape = "error_map"
       /\ workflow_id = before

C23_Witness ==
    /\ EnhancedObject
    /\ arg = None
    /\ resp.body.f["session_id"] = "s1"
    /\ result.body.f["session_id"] = FreshId

----------------------------------------------------------------------------
(* A failure status with a body that is not JSON *)

\* the operations that return self._handle_response(response) inside a try
\* whose except clause raises Exception("Connection error: ...")
ConnectionErrorOps == RaisingOps \cup {"get_user_details"}

\* C24: when the response has a failure (non-2xx) status and a body that is
\* not JSON, _handle_response raises the transport library's HTTP error
\* instead of returning the decode-failure descriptor, and the operation that
\* called it raises Exception("Connection error: ...") to the caller.
C24_FailureStatusNotJsonRaises ==
    (op \in ConnectionErrorOps /\ Answered /\ ~Is2xx(resp) /\ resp.body.form = "text")
    => result = Raise("Exception", "Connection error", "HTTPError", resp.status)

----------------------------------------------------------------------------
(* assign_roles *)

\* C25: assign_roles first issues GET /get_models; when the list of models it
\* got is empty it returns the error mapping "No model is added, Please do
\* add one model" and issues no POST; POST /assign_roles is issued only by
\* assign_roles, second, after a get_models result with at least one model.
C25_PostOnlyWithModels ==
    /\ op = "assign_roles"
       => /\ Len(sent) >= 1
          /\ sent[1].method = "GET" /\ sent[1].path = "/get_models"
          /\ fetched = "[]"
             => (/\ Len(sent) = 1
                 /\ result = ReturnError("No model is added, Please do add one model", ""))
    /\ \A i \in 1..Len(sent) :
          sent[i].path = "/assign_roles"
          => (/\ op = "assign_roles"
              /\ i = 2
              /\ sent[i].method = "POST"
              /\ fetched = "[m]")

C25_Witness ==
    /\ op = "assign_roles"
    /\ fetched = "[]"
    /\ sent = <<Authed("GET", "/get_models", None)>>
    /\ result.shape = "error_map"

----------------------------------------------------------------------------
(* Overwriting the session *)

SessionOps == {"save_workflow", "run_workflow"}

\* C26: after a save_workflow or run_workflow call that issued its request,
\* workflow_id is the session_id of the decoded body whenever the body has
\* that key, whatever the status of the response and whatever the value (a
\* null value unsets the session); when the transport failed or the body did
\* not decode, workflow_id is what it was before the call.
C26_SessionOverwritten ==
    (op \in SessionOps /\ sent # <<>>)
    => /\ (Answered /\ Has(resp.body, "session_id"))
          => workflow_id = resp.body.f["session_id"]
       /\ (TransportFailed \/ ~IsJson(resp.body)) => workflow_id = before
       /\ (Answered /\ IsJson(resp.body) /\ ~Has(resp.body, "session_id"))
          => workflow_id = before

C26_Witness ==
    /\ op \in SessionOps
    /\ Answered
    /\ resp.status = 500
    /\ Has(resp.body, "session_id")
    /\ resp.body.f["session_id"] = None
    /\ before = "s1"
    /\ workflow_id = None

----------------------------------------------------------------------------
(* create_workflow *)

\* the last create_workflow call failed: the file could not be read, the
\* transport raised, the body did not decode or it carries no workflow_id
CreateFailed ==
    \/ sent = <<>>
    \/ TransportFailed
    \/ ~IsJson(resp.body)
    \/ ~Has(resp.body, "workflow_id")

\* C27: create_workflow changes workflow_id only to the non-empty workflow_id
\* of the decoded response; when the JSON file cannot be read it issues no
\* request; in every failing case (unreadable file, transport failure,
\* undecodable body, response without workflow_id) it returns an error
\* mapping or the body and workflow_id keeps its previous value.
C27_CreateAdoptsNonEmpty ==
    op = "create_workflow"
    => /\ workflow_id # before
          => (/\ Answered
              /\ Has(resp.body, "workflow_id")
              /\ Truthy(resp.body.f["workflow_id"])
              /\ workflow_id = resp.body.f["workflow_id"])
       /\ (result.msg = "OSError") <=> (sent = <<>>)
       /\ CreateFailed
          => (/\ workflow_id = before
              /\ result.kind = "return"
              /\ \/ result.shape = "error_map"
                 \/ result = ReturnBody(resp.body))

C27_Witness ==
    /\ op = "create_workflow"
    /\ Answered
    /\ Has(resp.body, "workflow_id")
    /\ resp.body.f["workflow_id"] = ""
    /\ before = "s1"
    /\ workflow_id = "s1"

----------------------------------------------------------------------------
(* Who writes workflow_id *)

\* the operations whose code assigns self.workflow_id
WorkflowWriters == {"create_workflow", "save_workflow", "run_workflow", "delete_workflow"}

\* C28: a call of any operation other than create_workflow, save_workflow,
\* run_workflow and delete_workflow (create_workflow_config, enhance_prompt
\* and surprise_me among them) leaves workflow_id as it was; so when such a
\* call was made with no workflow stored, a chat that follows it still
\* returns "Workflow not created" without a request.
C28_OnlyWritersChange ==
    [][/\ op' \notin WorkflowWriters => workflow_id' = workflow_id
       /\ (op \notin WorkflowWriters /\ op # "none" /\ before = None /\ op' = "chat")
          => (/\ sent' = <<>>
              /\ result' = ReturnError("Workflow not created. Call create_workflow first.", ""))]_vars

C28_Witness ==
    /\ op = "enhance_prompt"
    /\ Has(resp.body, "session_id")
    /\ resp.body.f["session_id"] = "s2"
    /\ before = "s1"
    /\ workflow_id = "s1"

----------------------------------------------------------------------------
(* Validation comes first and once *)

\* the request _validate_api_key issues
ValidationRequest == Request("GET", base_url, "/user", Bearer(api_key), None)

\* what holds in every state of a client's life
ValidatedFirst ==
    /\ phase = "new" => (op = "none" /\ sent = <<>> /\ validations = 0)
    /\ (op = "__init__" /\ ~IsTrusted(api_key))
       => (sent = <<ValidationRequest>> /\ validations = 1)
    /\ phase = "failed" => op = "__init__"
    /\ op \notin {"none", "__init__"}
       => (/\ phase = "ready"
           /\ ~IsTrusted(api_key) => validations = 1)
    /\ \A i \in 1..Len(sent) :
          sent[i].path = "/user" => op \in {"__init__", "get_user_details"}

\* what holds of every step of a client's life
ValidatedOnce ==
    /\ (phase = "new" /\ phase' = "ready" /\ ~IsTrusted(api_key'))
       => (/\ sent' = <<Request("GET", base_url', "/user", Bearer(api_key'), None)>>
           /\ resp'.err = ""
           /\ resp'.body.f["status_code"] = "200"
           /\ resp'.body.f["valid"] = "true")
    /\ (phase # "new" /\ sent' # <<>>) => phase = "ready"
    /\ phase # "new" => validations' = validations

\* C29: a client whose credential does not start with AAAI issues GET /user
\* as its first request; every request of an operation is issued after that
\* validation succeeded (a failed validation leaves no client to call); the
\* validation request is issued once and no later operation issues GET /user
\* except get_user_details.
C29_ValidationFirstAndOnce == []ValidatedFirst /\ [][ValidatedOnce]_vars

C29_Witness ==
    /\ op = "save_workflow"
    /\ sent # <<>>
    /\ ~IsTrusted(api_key)
    /\ validations = 1
    /\ phase = "ready"

=============================================================================
